---- MODULE Spec2Model ----
(***************************************************************************)
(* Model of the web-plot enrichment pipeline of scripts/plot_finder.py:    *)
(* PlotFinder.process_movie_file (one run per record file), the search-    *)
(* and-extract loop, the Bedrock normalizer, the whole-file rewrite, and   *)
(* the maintenance pass clean_invalid_plots.                               *)
(*                                                                         *)
(* Strings are abstracted to the features the code inspects: a text is a   *)
(* record of its length, its surrounding whitespace, the number of noise   *)
(* indicators it contains, and so on; `body` stands for the characters     *)
(* themselves (two texts with different bodies are different strings).     *)
(* A URL is abstracted to whether it has an http(s) scheme and to the set  *)
(* of site names that occur in it as substrings.                           *)
(***************************************************************************)
EXTENDS Integers, Sequences, FiniteSets, TLC

(***************************************************************************)
(* Bounds of the model                                                     *)
(***************************************************************************)
NumFiles   == 1   \* record files in the movies directory
MaxOps     == 2   \* entry-point invocations (runs and maintenance passes)
MaxResults == 2   \* organic results in one search response
MaxDay     == 2   \* days the clock can show
MaxPage    == 4   \* elements of a page handed to the structured-article extraction
MaxAdded   == 1   \* record files put into the directory while a batch runs

(***************************************************************************)
(* Program constants                                                       *)
(***************************************************************************)
MinStripLen   == 100   \* _is_valid_plot_content: len(text.strip()) < 100
MaxIndicators == 3     \* indicator_count >= 3
MinSegments   == 3     \* len(sentences) < 3
StrictFloor   == 400   \* len(text) >= 400 / len(plot) >= 400
RelaxedFloor  == 300   \* len(text) >= 300 / len(plot) >= 300 and is_preferred
ExistingFloor == 400   \* len(web_plot) >= 400
AdequateLen   == 800   \* len(current_plot) >= 800
TooShortLen   == 200   \* len(enhanced_plot) < 200
GenMinLen     == 300   \* _extract_plot_with_bedrock: len(clean_plot) >= 300
CleanMinLen   == 300   \* process_movie_file: len(clean_plot) >= 300
NumQueries    == 3     \* the three query phrasings
LegacyMinLen  == 300   \* web_plot_scraper.py: len(plot_text.strip()) >= 300
TopResults    == 10    \* search_results['organic'][:10]
MAX_RETRIES   == 3     \* rewrite_synopsis_with_seo.py: attempts of the generation call
RETRY_DELAY   == 2     \* rewrite_synopsis_with_seo.py: seconds, doubled per attempt
FallbackMax   == 5     \* extract_top_keywords(seo_data, 5) of the fallback
NumDefaults   == 5     \* the default keywords of the fallback

Files == 1..NumFiles

Min(a, b) == IF a < b THEN a ELSE b

(***************************************************************************)
(* Texts                                                                   *)
(***************************************************************************)
Txt(body, len, ind, kw) ==
    [body |-> body, len |-> len, pad |-> 0, ind |-> ind, sec |-> FALSE,
     sim |-> FALSE, segs |-> 3, kw |-> kw]

EmptyText == [body |-> "", len |-> 0, pad |-> 0, ind |-> 0, sec |-> FALSE,
              sim |-> FALSE, segs |-> 1, kw |-> FALSE]

\* Python's None where a text is expected
NoneText == [EmptyText EXCEPT !.body = "None"]

\* truthiness of a str-or-None value
Truthy(t) == t.len > 0

\* variant: the template sentences are not looked for
IsValidPlotContent_NoTemplateCheck(t) ==
    IF ~Truthy(t) \/ t.len - t.pad < MinStripLen THEN FALSE
    ELSE IF t.ind >= MaxIndicators THEN FALSE
    ELSE IF t.sec THEN FALSE
    ELSE IF t.segs < MinSegments THEN FALSE
    ELSE IF t.len >= StrictFloor /\ t.kw /\ t.ind = 0 THEN TRUE
    ELSE IF t.len >= RelaxedFloor /\ t.kw /\ t.ind = 0 THEN TRUE
    ELSE FALSE

\* variant: the count is only compared with the threshold, and the threshold
\* itself is tolerated
IsValidPlotContent_ToleratesThreshold(t) ==
    IF ~Truthy(t) \/ t.len - t.pad < MinStripLen THEN FALSE
    ELSE IF t.ind > MaxIndicators THEN FALSE
    ELSE IF t.sec THEN FALSE
    ELSE IF t.sim THEN FALSE
    ELSE IF t.segs < MinSegments THEN FALSE
    ELSE IF t.len >= StrictFloor /\ t.kw THEN TRUE
    ELSE IF t.len >= RelaxedFloor /\ t.kw THEN TRUE
    ELSE FALSE

\* variant: the security phrases are not looked for and a count below the
\* threshold is tolerated
IsValidPlotContent_NoSecurityCheck(t) ==
    IF ~Truthy(t) \/ t.len - t.pad < MinStripLen THEN FALSE
    ELSE IF t.ind >= MaxIndicators THEN FALSE
    ELSE IF t.sim THEN FALSE
    ELSE IF t.segs < MinSegments THEN FALSE
    ELSE IF t.len >= StrictFloor /\ t.kw THEN TRUE
    ELSE IF t.len >= RelaxedFloor /\ t.kw THEN TRUE
    ELSE FALSE

\* variant: only the first of the two final length tests is made
IsValidPlotContent_StrictFloorOnly(t) ==
    IF ~Truthy(t) \/ t.len - t.pad < MinStripLen THEN FALSE
    ELSE IF t.ind >= MaxIndicators THEN FALSE
    ELSE IF t.sec THEN FALSE
    ELSE IF t.sim THEN FALSE
    ELSE IF t.segs < MinSegments THEN FALSE
    ELSE IF t.len >= StrictFloor /\ t.kw /\ t.ind = 0 THEN TRUE
    ELSE FALSE

\* PlotFinder._is_valid_plot_content
IsValidPlotContent(t) ==
    IF ~Truthy(t) \/ t.len - t.pad < MinStripLen THEN FALSE
    ELSE IF t.ind >= MaxIndicators THEN FALSE
    ELSE IF t.sec THEN FALSE
    ELSE IF t.sim THEN FALSE
    ELSE IF t.segs < MinSegments THEN FALSE
    ELSE IF t.len >= StrictFloor /\ t.kw /\ t.ind = 0 THEN TRUE
    ELSE IF t.len >= RelaxedFloor /\ t.kw /\ t.ind = 0 THEN TRUE
    ELSE FALSE

(***************************************************************************)
(* URLs                                                                    *)
(***************************************************************************)
SkipSites == {"imdb.com", "netflix.com", "amazon.com", "hulu.com", "disney.com",
              "facebook.com", "instagram.com", "twitter.com", "youtube.com",
              "linkedin.com", "pinterest.com", "tiktok.com"}

PreferredSites == {"wikipedia.org", "britannica.com", "imdb.com"}

ProblematicDomains == {"revionz.safariinfosoft.com",
                       "facebook.com", "instagram.com", "twitter.com", "youtube.com",
                       "linkedin.com", "pinterest.com", "tiktok.com", "snapchat.com"}

Url(http, sites) == [http |-> http, sites |-> sites]

\* the links a search response can carry
Urls == {Url(TRUE, {}), Url(TRUE, {"wikipedia.org"}), Url(TRUE, {"imdb.com"}),
         Url(TRUE, {"facebook.com"}), Url(TRUE, {"revionz.safariinfosoft.com"}),
         Url(FALSE, {})}

\* a response with one result more than the loop looks at: links of a social
\* network, then two pages
LongOrganic ==
    [i \in 1..(TopResults + 1) |->
        IF i < TopResults THEN Url(TRUE, {"facebook.com"}) ELSE Url(TRUE, {})]

\* variant: every result of the response is looked at
Considered_All(organic) == organic

\* search_results['organic'][:10]
Considered(organic) == SubSeq(organic, 1, Min(TopResults, Len(organic)))

\* any(site in url.lower() for site in skip_sites)
OnSkipList(url) == url.sites \cap SkipSites # {}

\* any(site in url.lower() for site in preferred_sites)
IsPreferred(url) == url.sites \cap PreferredSites # {}

\* _is_valid_url without its list of problematic domains
IsValidUrl_SchemeOnly(url) == url.http

\* PlotFinder._is_valid_url
IsValidUrl(url) == url.http /\ url.sites \cap ProblematicDomains = {}

(***************************************************************************)
(* Records and record files                                                *)
(***************************************************************************)
KeyOrder == <<"title", "plot", "web_plot", "raw_web_plot", "plot_source", "last_updated">>

EmptyObj == [k \in {} |-> 0]

\* dict.get(key, default)
Get(m, k, default) == IF k \in DOMAIN m THEN m[k] ELSE default

\* dict[key] = value
Put(m, k, v) == (k :> v) @@ m

\* open(path, 'w'): the file is truncated to nothing
Truncated == [obj |-> EmptyObj, done |-> FALSE]

\* the file once json.dump has written every member and the handle is closed
WholeFile(m) == [obj |-> m, done |-> TRUE]

\* json.load succeeds only on a complete document
Parseable(file) == file.done

Loads(file) == file.obj

\* the members json.dump still has to write, in order
Pending(m, file) ==
    SelectSeq(KeyOrder, LAMBDA k : k \in DOMAIN m /\ k \notin DOMAIN file.obj)


(***************************************************************************)
(* What the outside world can answer                                       *)
(***************************************************************************)
\* texts the page extractor can come up with (already stripped)
PageTexts == {Txt("page", 450, 0, TRUE), Txt("page", 350, 0, TRUE),
              Txt("page", 250, 0, TRUE), Txt("page", 450, 1, TRUE)}

\* a response of the search API: a failure (None, or no 'organic' key) or a
\* ranked list of links
SearchResponses ==
    {[ok |-> FALSE, organic |-> <<>>]} \cup
    {[ok |-> TRUE, organic |-> s] : s \in UNION {[1..n -> Urls] : n \in 0..MaxResults}} \cup
    {[ok |-> TRUE, organic |-> LongOrganic]}

\* outcome of one session.get: a response, one of the three exceptions the
\* inner handler names, or any other exception
GetOutcomes == {"ok", "ssl_error", "connection_error", "timeout", "other_error"}

\* except (SSLError, ConnectionError, Timeout): the failures that are retried
Retried == {"ssl_error", "connection_error", "timeout"}

\* what a delivered response turns out to be
PageKinds == {"http_error", "non_html", "html"}

\* the generation service: an exception, or a response text; `sentinel` says
\* that the text contains NO_PLOT_FOUND, `junk` counts the characters the
\* clean-up regexes remove
GenResponses ==
    {[ok |-> FALSE, text |-> EmptyText, sentinel |-> FALSE, junk |-> 0]} \cup
    {[ok |-> TRUE, text |-> Txt("gen", 450, 0, TRUE), sentinel |-> TRUE, junk |-> 0],
     [ok |-> TRUE, text |-> Txt("gen", 450, 0, TRUE), sentinel |-> FALSE, junk |-> 0],
     [ok |-> TRUE, text |-> Txt("gen", 350, 0, TRUE), sentinel |-> FALSE, junk |-> 0],
     [ok |-> TRUE, text |-> Txt("gen", 350, 0, TRUE), sentinel |-> FALSE, junk |-> 60],
     [ok |-> TRUE, text |-> Txt("gen", 450, 1, TRUE), sentinel |-> FALSE, junk |-> 0]}

(***************************************************************************)
(* Records the directory can hold at the start                             *)
(***************************************************************************)
Scraped(title, plot) == [title |-> title, plot |-> plot, last_updated |-> 1]

BasePlots == {Txt("base", 50, 0, TRUE), Txt("base", 800, 0, TRUE)}

InitRecords ==
    {Scraped("", Txt("base", 50, 0, TRUE))} \cup
    {Scraped("T", p) : p \in BasePlots} \cup
    {Put(Put(Scraped("T", p), "web_plot", w), "plot_source", "web_scraped") :
        p \in BasePlots,
        w \in {Txt("old", 450, 0, TRUE), Txt("old", 350, 0, TRUE), Txt("old", 550, 1, TRUE)}} \cup
    {Put(Put(Put(Scraped("T", p), "web_plot", Txt("oldgen", 350, 0, TRUE)),
             "raw_web_plot", Txt("old", 450, 0, TRUE)),
         "plot_source", "web_scraped_bedrock_cleaned") : p \in BasePlots}

(***************************************************************************)
(* State                                                                   *)
(***************************************************************************)
VARIABLES
    disk,        \* the record files: file name -> content
    today,       \* the date time.strftime returns
    ops,         \* entry-point invocations so far
    mode,        \* the entry point running or last run: "none", "single", "clean"
    pc,          \* where the running entry point is; "idle" when none runs
    cur,         \* the file being processed
    apiKey,      \* whether self.serper_api_key is set
    md,          \* movie_data, the in-memory record
    q,           \* index of the current query phrasing
    results,     \* search_results['organic'][:10] of the current query
    r,           \* rank of the current result
    cand,        \* plot, the value _extract_plot_from_url returned last
    gets,        \* number of GET requests issued for the last URL
    enhanced,    \* enhanced_plot, the value _search_movie_plot returned
    clean,       \* clean_plot, the value _extract_plot_with_bedrock returned
    result,      \* status or error of the finished run; "none" while running
    nSearch,     \* search requests issued in this run
    nFetch,      \* page fetches of this run that issued a request
    nGen,        \* generation calls issued in this run
    queue,       \* maintenance pass: the files still to visit
    cleaned,     \* maintenance pass: cleaned_count
    startDisk,   \* history: content of cur when its processing began
    prevStatus,  \* history: status of the previous run on cur
    lastStatus,  \* history: per file, status of the last run on it
    firstHit,    \* history: the first extracted candidate that met the floor
    lastFail,    \* history: the external call of this run that failed last
    dirExists,   \* whether self.movies_dir exists
    bpc,         \* where the 'process all' entry point is; "off" when it does not run
    movie_files, \* process_all_movies: the list glob returned
    idx,         \* process_all_movies: position of the loop in movie_files
    successful_updates,
    skipped_files,
    failed_files,
    success,     \* the value process_all_movies returned to main
    exitCode,    \* the status handed to sys.exit
    visited,     \* history: the files process_movie_file was called on, in order
    vUrl,        \* validator: the URL the text was extracted from
    vText,       \* validator: the argument text
    vpc,         \* validator: "ready" before the call, "done" after
    vVerdict,    \* validator: the value returned
    fImpl,       \* fetch: the implementation that runs
    fUrl,        \* fetch: the URL to fetch
    fpc,         \* fetch: where _extract_plot_from_url is
    attempts,    \* fetch: the GET requests issued, each with its verify flag and outcome
    fPlot,       \* fetch: the value returned
    added,       \* history: the files put into the directory while the batch ran
    gResp,       \* normalizer: the response of the generation service
    gpc,         \* normalizer: "ready" before the response is handled, "done" after
    gOut,        \* normalizer: the value returned
    gOutSentinel, \* normalizer: whether the value returned contains NO_PLOT_FOUND
    page,        \* extractor: the elements of the page, in document order
    ppc,         \* extractor: "ready" before the extraction, "done" after
    collected,   \* extractor: the positions of the paragraphs collected
    sKeywords,   \* synopsis: how many keywords extract_top_keywords finds
    spc,         \* synopsis: where generate_synopsis_with_bedrock is
    attempt,     \* synopsis: the loop variable of the retry loop
    invocations, \* synopsis: the calls of invoke_model made
    sleeps,      \* synopsis: the delays slept, in order
    synopsis     \* synopsis: what the call came to

\* the state of the 'process all' entry point
batchVars == <<dirExists, bpc, movie_files, idx, successful_updates, skipped_files,
               failed_files, success, exitCode, visited, added>>

\* the state of a normalizer call taken on its own
normVars == <<gResp, gpc, gOut, gOutSentinel>>

\* the state of a structured-article extraction taken on its own
pageVars == <<page, ppc, collected>>

\* the state of a generate_synopsis_with_bedrock call
synVars == <<sKeywords, spc, attempt, invocations, sleeps, synopsis>>

\* the state of the calls that are looked at on their own
pureVars == <<vUrl, vText, vpc, vVerdict, fImpl, fUrl, fpc, attempts, fPlot,
              normVars, pageVars, synVars>>

vars == <<disk, today, ops, mode, pc, cur, apiKey, md, q, results, r, cand, gets,
          enhanced, clean, result, nSearch, nFetch, nGen, queue, cleaned,
          startDisk, prevStatus, lastStatus, firstHit, lastFail, batchVars, pureVars>>

NoHit == [q |-> 0, r |-> 0, plot |-> NoneText, nSearch |-> 0, nFetch |-> 0]

\* no entry point has run yet
InitLocals ==
    /\ today = 1
    /\ ops = 0
    /\ mode = "none"
    /\ pc = "idle"
    /\ cur = 1
    /\ apiKey = FALSE
    /\ md = EmptyObj
    /\ q = 0
    /\ results = <<>>
    /\ r = 0
    /\ cand = NoneText
    /\ gets = 0
    /\ enhanced = NoneText
    /\ clean = NoneText
    /\ result = "none"
    /\ nSearch = 0
    /\ nFetch = 0
    /\ nGen = 0
    /\ queue = <<>>
    /\ cleaned = 0
    /\ startDisk = WholeFile(EmptyObj)
    /\ prevStatus = "none"
    /\ firstHit = NoHit
    /\ lastFail = "none"

\* 'process all' does not run
BatchOff ==
    /\ bpc = "off"
    /\ movie_files = <<>>
    /\ idx = 0
    /\ successful_updates = 0
    /\ skipped_files = 0
    /\ failed_files = 0
    /\ success = FALSE
    /\ exitCode = 0
    /\ visited = <<>>
    /\ added = {}

\* no normalizer call is looked at on its own
NormOff ==
    /\ gResp = [ok |-> FALSE, text |-> EmptyText, sentinel |-> FALSE,
                split |-> FALSE, junk |-> 0]
    /\ gpc = "off"
    /\ gOut = NoneText
    /\ gOutSentinel = FALSE

\* no extraction is looked at on its own
PageOff ==
    /\ page = <<>>
    /\ ppc = "off"
    /\ collected = {}

\* no synopsis is generated
SynOff ==
    /\ sKeywords = 0
    /\ spc = "off"
    /\ attempt = 0
    /\ invocations = 0
    /\ sleeps = <<>>
    /\ synopsis = "none"

\* no validator call is looked at on its own
ValidOff ==
    /\ vUrl = Url(TRUE, {})
    /\ vText = EmptyText
    /\ vpc = "off"
    /\ vVerdict = FALSE

\* no page fetch is looked at on its own
FetchOff ==
    /\ fImpl = "plot_finder"
    /\ fUrl = Url(TRUE, {})
    /\ fpc = "off"
    /\ attempts = <<>>
    /\ fPlot = NoneText

\* none of the calls is looked at on its own
PureOff ==
    /\ ValidOff
    /\ FetchOff
    /\ NormOff
    /\ PageOff
    /\ SynOff

Init ==
    /\ disk \in [Files -> {WholeFile(m) : m \in InitRecords}]
    /\ lastStatus = [f \in Files |-> "none"]
    /\ dirExists = TRUE
    /\ InitLocals
    /\ BatchOff
    /\ PureOff

(***************************************************************************)
(* Pure steps of the code                                                  *)
(***************************************************************************)
\* _extract_plot_with_bedrock: the value returned for a service answer
ExtractPlotWithBedrock(resp) ==
    IF ~resp.ok THEN NoneText
    ELSE IF resp.sentinel THEN NoneText
    ELSE LET c == [resp.text EXCEPT !.len = @ - resp.junk]
         IN  IF c.len >= GenMinLen THEN c ELSE NoneText

\* what a delivered response yields: raise_for_status, the content-type check,
\* the extraction and its validation
Delivered(n) ==
    {[plot |-> IF kind = "html" /\ IsValidPlotContent(t) THEN t ELSE NoneText,
      gets |-> n, failed |-> kind # "html"] : kind \in PageKinds, t \in PageTexts}

\* _extract_plot_from_url: the values it can return, with the GETs issued and
\* whether the fetch failed to obtain an HTML document
ExtractPlotFromUrl(url) ==
    IF ~IsValidUrl(url) THEN {[plot |-> NoneText, gets |-> 0, failed |-> FALSE]}
    ELSE UNION {IF a1 = "ok" THEN Delivered(1)
                ELSE IF a1 \notin Retried
                THEN {[plot |-> NoneText, gets |-> 1, failed |-> TRUE]}
                ELSE UNION {IF a2 = "ok" THEN Delivered(2)
                            ELSE {[plot |-> NoneText, gets |-> 2, failed |-> TRUE]}
                            : a2 \in GetOutcomes}
                : a1 \in GetOutcomes}

\* variant: the relaxed floor for preferred sites is missing
Accepts_NoRelaxedFloor(plot, url) ==
    Truthy(plot) /\ plot.len >= StrictFloor

\* the two acceptance tests of the search-and-extract loop
Accepts(plot, url) ==
    \/ Truthy(plot) /\ plot.len >= StrictFloor
    \/ Truthy(plot) /\ plot.len >= RelaxedFloor /\ IsPreferred(url)

\* variant: a stored plot is taken as enhanced on its length alone
ExistingOk_LengthOnly(web_plot) ==
    web_plot.len >= ExistingFloor

\* the test for status 'existing'
ExistingOk(web_plot) ==
    web_plot.len >= ExistingFloor /\ IsValidPlotContent(web_plot)

\* variant: every stored plot is cleared, valid or not
NeedsClear_AnyPlot(web_plot) == Truthy(web_plot)

\* the test for clearing a stored plot (also the one of clean_invalid_plots)
NeedsClear(web_plot) ==
    Truthy(web_plot) /\ ~IsValidPlotContent(web_plot)

\* variant: only the plot is blanked, its tag stays
ClearInvalid_KeepsSource(m) == Put(m, "web_plot", EmptyText)

\* movie_data["web_plot"] = ""; movie_data["plot_source"] = ""
ClearInvalid(m) == Put(Put(m, "web_plot", EmptyText), "plot_source", "")

\* variant: the comparison is strict
IsAdequate_Strict(plot) == plot.len > AdequateLen

\* the test for status 'adequate'
IsAdequate(plot) == plot.len >= AdequateLen

\* the branch that keeps the normalizer's text
StoreClean(m, cl, raw) ==
    Put(Put(Put(m, "web_plot", cl), "raw_web_plot", raw),
        "plot_source", "web_scraped_bedrock_cleaned")

\* variant: the raw branch forgets the provenance tag
StoreRaw_NoSource(m, raw) == Put(m, "web_plot", raw)

\* the branch that keeps the raw candidate
StoreRaw(m, raw) == Put(Put(m, "web_plot", raw), "plot_source", "web_scraped")

\* the orders in which glob can list the directory
FileOrders ==
    {s \in [1..NumFiles -> Files] : \A i, j \in 1..NumFiles : s[i] = s[j] => i = j}

(***************************************************************************)
(* process_movie_file                                                      *)
(***************************************************************************)
\* variant: the record in memory is saved on the way out
ReturnUnwritten_Saves(f, m, status) ==
    /\ pc' = "idle"
    /\ result' = status
    /\ lastStatus' = [lastStatus EXCEPT ![f] = status]
    /\ md' = EmptyObj
    /\ disk' = [disk EXCEPT ![f] = WholeFile(m)]

\* a return that writes nothing: the record m in memory is dropped
ReturnUnwritten(f, m, status) ==
    /\ pc' = "idle"
    /\ result' = status
    /\ lastStatus' = [lastStatus EXCEPT ![f] = status]
    /\ md' = EmptyObj
    /\ disk' = disk

\* variant: the record is processed whether or not it has a title
Begin_NoTitleCheck(f) ==
    /\ pc = "idle"
    /\ ops < MaxOps
    /\ ops' = ops + 1
    /\ mode' = "single"
    /\ cur' = f
    /\ apiKey' \in BOOLEAN
    /\ startDisk' = disk[f]
    /\ prevStatus' = lastStatus[f]
    /\ nSearch' = 0 /\ nFetch' = 0 /\ nGen' = 0
    /\ cand' = NoneText /\ gets' = 0
    /\ enhanced' = NoneText /\ clean' = NoneText
    /\ firstHit' = NoHit
    /\ lastFail' = "none"
    /\ results' = <<>> /\ r' = 0
    /\ UNCHANGED <<today, queue, cleaned>>
    /\ IF ~Parseable(disk[f])
       THEN q' = 0 /\ ReturnUnwritten(f, EmptyObj, "exception")
       ELSE LET m0 == Loads(disk[f])
                web_plot == Get(m0, "web_plot", EmptyText)
                m1 == IF NeedsClear(web_plot) THEN ClearInvalid(m0) ELSE m0
            IN  IF ExistingOk(web_plot)
                THEN q' = 0 /\ ReturnUnwritten(f, m0, "existing")
                ELSE IF IsAdequate(Get(m0, "plot", EmptyText))
                THEN q' = 0 /\ ReturnUnwritten(f, m1, "adequate")
                ELSE /\ q' = 1
                     /\ pc' = "search"
                     /\ md' = m1
                     /\ result' = "none"
                     /\ UNCHANGED <<lastStatus, disk>>

\* load, title check and eligibility check
Begin(f) ==
    /\ pc = "idle"
    /\ ops < MaxOps
    /\ ops' = ops + 1
    /\ mode' = "single"
    /\ cur' = f
    /\ apiKey' \in BOOLEAN
    /\ startDisk' = disk[f]
    /\ prevStatus' = lastStatus[f]
    /\ nSearch' = 0 /\ nFetch' = 0 /\ nGen' = 0
    /\ cand' = NoneText /\ gets' = 0
    /\ enhanced' = NoneText /\ clean' = NoneText
    /\ firstHit' = NoHit
    /\ lastFail' = "none"
    /\ results' = <<>> /\ r' = 0
    /\ UNCHANGED <<today, queue, cleaned>>
    /\ IF ~Parseable(disk[f])
       THEN q' = 0 /\ ReturnUnwritten(f, EmptyObj, "exception")
       ELSE LET m0 == Loads(disk[f])
                web_plot == Get(m0, "web_plot", EmptyText)
                m1 == IF NeedsClear(web_plot) THEN ClearInvalid(m0) ELSE m0
            IN  IF Get(m0, "title", "") = ""
                THEN q' = 0 /\ ReturnUnwritten(f, m0, "No movie title found")
                ELSE IF ExistingOk(web_plot)
                THEN q' = 0 /\ ReturnUnwritten(f, m0, "existing")
                ELSE IF IsAdequate(Get(m0, "plot", EmptyText))
                THEN q' = 0 /\ ReturnUnwritten(f, m1, "adequate")
                ELSE /\ q' = 1
                     /\ pc' = "search"
                     /\ md' = m1
                     /\ result' = "none"
                     /\ UNCHANGED <<lastStatus, disk>>

\* the end of one query: the next phrasing, or None from _search_movie_plot
\* and the return of "No valid plot found"
NextQuery ==
    IF q < NumQueries
    THEN /\ q' = q + 1
         /\ pc' = "search"
         /\ results' = <<>>
         /\ r' = 0
         /\ UNCHANGED <<enhanced, result, lastStatus, md, disk>>
    ELSE /\ ReturnUnwritten(cur, md, "No valid plot found")
         /\ q' = 0
         /\ results' = <<>>
         /\ r' = 0
         /\ UNCHANGED enhanced

\* variant: a result that yields nothing ends the whole search
Advance_GivesUp ==
    /\ ReturnUnwritten(cur, md, "No valid plot found")
    /\ q' = 0
    /\ results' = <<>>
    /\ r' = 0
    /\ UNCHANGED enhanced

\* the end of one result: the next result, or the end of the query
Advance ==
    IF r < Len(results)
    THEN /\ r' = r + 1
         /\ UNCHANGED <<pc, q, results, enhanced, result, lastStatus, md, disk>>
    ELSE NextQuery

\* variant: the candidate is stored as it is, without the normalizer
Found_SkipsNormalizer(plot) ==
    /\ enhanced' = plot
    /\ pc' = "write"
    /\ q' = 0
    /\ results' = <<>>
    /\ r' = 0
    /\ UNCHANGED <<result, lastStatus, md, disk>>

\* variant: the candidate is kept but the scan of the result list goes on
Found_KeepScanning(plot) ==
    /\ enhanced' = plot
    /\ IF r < Len(results)
       THEN r' = r + 1 /\ UNCHANGED <<pc, q, results>>
       ELSE pc' = "normalize" /\ q' = 0 /\ results' = <<>> /\ r' = 0
    /\ UNCHANGED <<result, lastStatus, md, disk>>

\* return plot: the loop ends with the candidate, its locals go out of scope
Found(plot) ==
    /\ enhanced' = plot
    /\ pc' = "normalize"
    /\ q' = 0
    /\ results' = <<>>
    /\ r' = 0
    /\ UNCHANGED <<result, lastStatus, md, disk>>

\* one search request (none is sent without an API key)
Search ==
    /\ UNCHANGED <<batchVars, pureVars>>
    /\ pc = "search"
    /\ UNCHANGED <<today, ops, mode, cur, apiKey, cand, gets, clean, nFetch, nGen,
                   queue, cleaned, startDisk, prevStatus, firstHit>>
    /\ IF ~apiKey
       THEN nSearch' = nSearch /\ lastFail' = lastFail /\ NextQuery
       ELSE /\ nSearch' = nSearch + 1
            /\ \E resp \in SearchResponses :
                 LET top == Considered(resp.organic)
                 IN  /\ lastFail' = IF resp.ok THEN "none" ELSE "search"
                     /\ IF ~resp.ok \/ top = <<>>
                        THEN NextQuery
                        ELSE /\ results' = top
                             /\ r' = 1
                             /\ pc' = "scan"
                             /\ UNCHANGED <<q, enhanced, result, lastStatus, md, disk>>

\* one result of the current query: skip it, or fetch, extract and test it
ScanUrl ==
    /\ UNCHANGED <<batchVars, pureVars>>
    /\ pc = "scan"
    /\ UNCHANGED <<today, ops, mode, cur, apiKey, clean, nSearch, nGen,
                   queue, cleaned, startDisk, prevStatus>>
    /\ LET url == results[r]
       IN  IF OnSkipList(url)
           THEN /\ cand' = NoneText /\ gets' = 0
                /\ UNCHANGED <<nFetch, firstHit, lastFail>>
                /\ Advance
           ELSE \E o \in ExtractPlotFromUrl(url) :
                  /\ cand' = o.plot
                  /\ gets' = o.gets
                  /\ lastFail' = IF o.failed THEN "fetch"
                                 ELSE IF o.gets > 0 THEN "none" ELSE lastFail
                  /\ nFetch' = nFetch + (IF o.gets > 0 THEN 1 ELSE 0)
                  /\ firstHit' = IF Accepts(o.plot, url) /\ firstHit = NoHit
                                 THEN [q |-> q, r |-> r, plot |-> o.plot,
                                       nSearch |-> nSearch,
                                       nFetch |-> nFetch + (IF o.gets > 0 THEN 1 ELSE 0)]
                                 ELSE firstHit
                  /\ IF Accepts(o.plot, url) THEN Found(o.plot) ELSE Advance

\* whether the sentinel occurs in the value _extract_plot_with_bedrock returns:
\* the test for the sentinel is made on the stripped response, before the
\* regex that deletes the control characters; a response that has control
\* characters inside the letters of the sentinel passes the test and has the
\* sentinel once they are deleted
ResultHasSentinel(resp) ==
    /\ Truthy(ExtractPlotWithBedrock(resp))
    /\ resp.split

\* the length check, the generation call and the choice of what to store
CleanAndStore ==
    /\ UNCHANGED <<batchVars, pureVars>>
    /\ pc = "normalize"
    /\ UNCHANGED <<today, ops, mode, cur, apiKey, q, results, r, cand, gets, enhanced,
                   nSearch, nFetch, queue, cleaned, startDisk, prevStatus, firstHit>>
    /\ IF enhanced.len < TooShortLen
       THEN /\ ReturnUnwritten(cur, md, "Plot too short")
            /\ UNCHANGED <<clean, nGen, lastFail>>
       ELSE \E resp \in GenResponses :
              LET cl == ExtractPlotWithBedrock(resp)
              IN  /\ clean' = cl
                  /\ nGen' = nGen + 1
                  /\ lastFail' = IF resp.ok THEN "none" ELSE "generation"
                  /\ IF Truthy(cl) /\ cl.len >= CleanMinLen
                     THEN /\ md' = Put(StoreClean(md, cl, enhanced), "last_updated", today)
                          /\ pc' = "write"
                          /\ UNCHANGED <<result, lastStatus, disk>>
                     ELSE IF Truthy(enhanced)
                     THEN /\ md' = Put(StoreRaw(md, enhanced), "last_updated", today)
                          /\ pc' = "write"
                          /\ UNCHANGED <<result, lastStatus, disk>>
                     ELSE ReturnUnwritten(cur, md, "No suitable plot found")

(***************************************************************************)
(* The rewrite of a record file: open(path, 'w'), json.dump, close         *)
(***************************************************************************)
OpenWrite ==
    /\ UNCHANGED <<lastFail, batchVars, pureVars>>
    /\ pc = "write"
    /\ disk' = [disk EXCEPT ![cur] = Truncated]
    /\ pc' = "dump"
    /\ UNCHANGED <<today, ops, mode, cur, apiKey, md, q, results, r, cand, gets,
                   enhanced, clean, result, nSearch, nFetch, nGen, queue, cleaned,
                   startDisk, prevStatus, lastStatus, firstHit>>

DumpMember ==
    /\ UNCHANGED <<lastFail, batchVars, pureVars>>
    /\ pc = "dump"
    /\ Pending(md, disk[cur]) # <<>>
    /\ LET k == Head(Pending(md, disk[cur]))
       IN  disk' = [disk EXCEPT ![cur].obj = Put(@, k, md[k])]
    /\ UNCHANGED <<today, ops, mode, pc, cur, apiKey, md, q, results, r, cand, gets,
                   enhanced, clean, result, nSearch, nFetch, nGen, queue, cleaned,
                   startDisk, prevStatus, lastStatus, firstHit>>

\* the file is complete; process_movie_file returns 'updated', the
\* maintenance pass counts the record and goes on
CloseFile ==
    /\ UNCHANGED <<lastFail, batchVars, pureVars>>
    /\ pc = "dump"
    /\ Pending(md, disk[cur]) = <<>>
    /\ disk' = [disk EXCEPT ![cur].done = TRUE]
    /\ md' = EmptyObj
    /\ IF mode = "clean"
       THEN /\ pc' = "clean"
            /\ cleaned' = cleaned + 1
            /\ queue' = Tail(queue)
            /\ lastStatus' = [lastStatus EXCEPT ![cur] = "cleaned"]
            /\ UNCHANGED result
       ELSE /\ pc' = "idle"
            /\ result' = "updated"
            /\ lastStatus' = [lastStatus EXCEPT ![cur] = "updated"]
            /\ UNCHANGED <<cleaned, queue>>
    /\ UNCHANGED <<today, ops, mode, cur, apiKey, q, results, r, cand, gets,
                   enhanced, clean, nSearch, nFetch, nGen,
                   startDisk, prevStatus, firstHit>>

(***************************************************************************)
(* clean_invalid_plots                                                     *)
(***************************************************************************)
CleanBegin ==
    /\ UNCHANGED <<batchVars, pureVars>>
    /\ pc = "idle"
    /\ ops < MaxOps
    /\ ops' = ops + 1
    /\ mode' = "clean"
    /\ pc' = "clean"
    /\ queue' \in FileOrders
    /\ cleaned' = 0
    /\ result' = "none"
    /\ md' = EmptyObj
    /\ q' = 0 /\ results' = <<>> /\ r' = 0
    /\ nSearch' = 0 /\ nFetch' = 0 /\ nGen' = 0
    /\ cand' = NoneText /\ gets' = 0
    /\ enhanced' = NoneText /\ clean' = NoneText
    /\ firstHit' = NoHit
    /\ lastFail' = "none"
    /\ prevStatus' = "none"
    /\ UNCHANGED <<disk, today, cur, apiKey, startDisk, lastStatus>>

\* one iteration of the loop over the files, up to the decision to rewrite
CleanFile ==
    /\ UNCHANGED <<lastFail, batchVars, pureVars>>
    /\ pc = "clean"
    /\ queue # <<>>
    /\ LET f == Head(queue)
       IN  /\ cur' = f
           /\ startDisk' = disk[f]
           /\ IF ~Parseable(disk[f])
              THEN /\ queue' = Tail(queue)
                   /\ UNCHANGED <<pc, md>>
              ELSE LET m0 == Loads(disk[f])
                   IN  IF NeedsClear(Get(m0, "web_plot", EmptyText))
                       THEN /\ md' = Put(ClearInvalid(m0), "last_updated", today)
                            /\ pc' = "write"
                            /\ UNCHANGED queue
                       ELSE /\ queue' = Tail(queue)
                            /\ UNCHANGED <<pc, md>>
    /\ UNCHANGED <<disk, today, ops, mode, apiKey, q, results, r, cand, gets,
                   enhanced, clean, result, nSearch, nFetch, nGen, cleaned,
                   prevStatus, lastStatus, firstHit>>

\* return cleaned_count > 0
CleanEnd ==
    /\ UNCHANGED <<lastFail, batchVars, pureVars>>
    /\ pc = "clean"
    /\ queue = <<>>
    /\ pc' = "idle"
    /\ result' = IF cleaned > 0 THEN "cleaned" ELSE "nothing cleaned"
    /\ UNCHANGED <<disk, today, ops, mode, cur, apiKey, md, q, results, r, cand, gets,
                   enhanced, clean, nSearch, nFetch, nGen, queue, cleaned,
                   startDisk, prevStatus, lastStatus, firstHit>>

(***************************************************************************)
(* The environment                                                         *)
(***************************************************************************)
\* midnight passes
Tick ==
    /\ UNCHANGED <<lastFail, batchVars, pureVars>>
    /\ today < MaxDay
    /\ today' = today + 1
    /\ UNCHANGED <<disk, ops, mode, pc, cur, apiKey, md, q, results, r, cand, gets,
                   enhanced, clean, result, nSearch, nFetch, nGen, queue, cleaned,
                   startDisk, prevStatus, lastStatus, firstHit>>

\* the process is terminated while an entry point runs
Crash ==
    /\ UNCHANGED <<lastFail, batchVars, pureVars>>
    /\ pc # "idle"
    /\ pc' = "idle"
    /\ mode' = "crashed"
    /\ result' = "none"
    /\ UNCHANGED <<disk, today, ops, cur, apiKey, md, q, results, r, cand, gets,
                   enhanced, clean, nSearch, nFetch, nGen, queue, cleaned,
                   startDisk, prevStatus, lastStatus, firstHit>>

StartRun == \E f \in Files : Begin(f) /\ UNCHANGED <<batchVars, pureVars>>

Next ==
    \/ StartRun
    \/ Search
    \/ ScanUrl
    \/ CleanAndStore
    \/ OpenWrite
    \/ DumpMember
    \/ CloseFile
    \/ CleanBegin
    \/ CleanFile
    \/ CleanEnd
    \/ Tick

Spec == Init /\ [][Next]_vars

NextCrash == Next \/ Crash

SpecCrash == Init /\ [][NextCrash]_vars

(***************************************************************************)
(* Properties                                                              *)
(***************************************************************************)
\* a process_movie_file run has returned
RunEnded == pc = "idle" /\ mode = "single" /\ result # "none"

\* the enriched plot a record file holds
WebPlotOf(file) == Get(Loads(file), "web_plot", EmptyText)

SourceOf(file) == Get(Loads(file), "plot_source", "")

\* the run began on a titled record whose stored enriched plot fails validation
StartedInvalid ==
    /\ Parseable(startDisk)
    /\ Get(Loads(startDisk), "title", "") # ""
    /\ Truthy(WebPlotOf(startDisk))
    /\ ~IsValidPlotContent(WebPlotOf(startDisk))

NoCalls == nSearch = 0 /\ nFetch = 0 /\ nGen = 0

\* C1: a run on a record whose previous run returned 'updated' issues no
\* search, fetch or generation call and leaves the file as it was, date included.
C1_SecondRunIsNoOp ==
    (mode = "single" /\ prevStatus = "updated")
        => (NoCalls /\ (pc = "idle" => disk[cur] = startDisk))

\* C2: after the process was terminated in the middle of an entry point, every
\* record file is a complete document (the old one or the new one), never a
\* truncated or partly written one.
C2_CrashLeavesWholeFiles ==
    mode = "crashed" => \A f \in Files : Parseable(disk[f])

\* C3: every stored record with a non-empty web_plot has plot_source
\* 'web_scraped' or 'web_scraped_bedrock_cleaned'.
C3_ProvenanceInvariant ==
    \A f \in Files :
        (Parseable(disk[f]) /\ Truthy(WebPlotOf(disk[f])))
            => SourceOf(disk[f]) \in {"web_scraped", "web_scraped_bedrock_cleaned"}

C3_Witness ==
    /\ RunEnded
    /\ result = "updated"
    /\ prevStatus = "cleaned"
    /\ SourceOf(disk[cur]) = "web_scraped"

\* C4: in every step of the search-and-extract loop that obtained a candidate
\* from a URL, the candidate is accepted (the loop returns it) iff its length
\* is >= 400, or >= 300 with the URL matching a preferred site.
C4_AcceptanceFloors ==
    [][(pc = "scan" /\ <<pc, r>>' # <<pc, r>> /\ mode' = mode /\ Truthy(cand'))
        => ((pc' = "normalize" /\ enhanced' = cand')
              <=> \/ cand'.len >= 400
                  \/ /\ cand'.len >= 300
                     /\ results[r].sites \cap {"wikipedia.org", "britannica.com", "imdb.com"} # {})]_vars

C4_Witness ==
    /\ pc = "normalize"
    /\ enhanced.len = 350
    /\ firstHit.r = 2
    /\ nFetch = 2

\* C5: the loop returns the first candidate, in (query, rank) order, that meets
\* the floor, and from then on the run issues no search request and no fetch.
C5_FirstMatchShortCircuit ==
    /\ [](firstHit # NoHit
            => /\ pc \notin {"search", "scan"}
               /\ enhanced = firstHit.plot
               /\ nSearch = firstHit.nSearch
               /\ nFetch = firstHit.nFetch)
    /\ [](Truthy(enhanced) => firstHit # NoHit)
    /\ [][\/ q' = q /\ r' = r + 1
          \/ q' = q + 1 /\ r' = 0
          \/ q' = 0 /\ r' = 0]_<<q, r>>

C5_Witness ==
    /\ RunEnded
    /\ result = "updated"
    /\ firstHit.q = 2
    /\ firstHit.r = 2
    /\ nSearch = 2

\* C6: after the normalizer was called: a cleaned text of >= 300 chars is
\* stored with the raw candidate and the tag generation-cleaned; no cleaned text
\* and a raw candidate of >= 400 chars stores the raw candidate with the tag
\* raw-fetched; anything else ends 'No suitable plot found' and stores nothing.
C6_NormalizationOutcome ==
    (RunEnded /\ nGen = 1)
        => IF Truthy(clean) /\ clean.len >= 300
           THEN /\ result = "updated"
                /\ WebPlotOf(disk[cur]) = clean
                /\ Get(Loads(disk[cur]), "raw_web_plot", EmptyText) = enhanced
                /\ SourceOf(disk[cur]) = "web_scraped_bedrock_cleaned"
           ELSE IF enhanced.len >= 400
           THEN /\ result = "updated"
                /\ WebPlotOf(disk[cur]) = enhanced
                /\ SourceOf(disk[cur]) = "web_scraped"
           ELSE /\ result = "No suitable plot found"
                /\ disk[cur] = startDisk

\* C7: a run that ends because no candidate was accepted leaves the record
\* file exactly as it was, also when the stored enriched plot was invalid.
C7_NoWriteOnFailure ==
    (RunEnded /\ result \in {"No valid plot found", "Plot too short"})
        => disk[cur] = startDisk

C7_Witness ==
    /\ RunEnded
    /\ result = "No valid plot found"
    /\ nFetch > 0
    /\ StartedInvalid

\* C8 as stated: after a run on a record whose stored enriched plot failed
\* re-validation, the stored record no longer carries that plot.
C8_InvalidPlotGoneFromFile ==
    (RunEnded /\ StartedInvalid)
        => WebPlotOf(disk[cur]) # WebPlotOf(startDisk)

\* C8 amended: the invalid plot and its tag are cleared in memory only; the
\* run is never skipped as 'existing'; the file is rewritten with the new plot
\* when the run ends 'updated' and is untouched otherwise.
C8_InvalidPlotClearedInMemory ==
    (mode = "single" /\ StartedInvalid)
        => /\ pc \in {"search", "scan", "normalize"}
                => /\ md["web_plot"] = EmptyText
                   /\ md["plot_source"] = ""
                   /\ disk[cur] = startDisk
           /\ RunEnded
                => /\ result # "existing"
                   /\ result = "updated"
                        => WebPlotOf(disk[cur]) = (IF Truthy(clean) THEN clean ELSE enhanced)
                   /\ result # "updated" => disk[cur] = startDisk

C8_Witness ==
    /\ RunEnded
    /\ StartedInvalid
    /\ result = "adequate"

\* C9: on a titled record, a stored enriched plot that validates and has >= 400
\* chars ends the run with 'existing'; failing that, a base plot of >= 800
\* chars ends it with 'adequate'; either way no call was made and the file is
\* as it was.
C9_EligibilitySkip ==
    (RunEnded /\ Parseable(startDisk) /\ Get(Loads(startDisk), "title", "") # "")
        => LET wp == WebPlotOf(startDisk)
               plot == Get(Loads(startDisk), "plot", EmptyText)
               existing == wp.len >= 400 /\ IsValidPlotContent(wp)
           IN  /\ existing
                    => result = "existing" /\ NoCalls /\ disk[cur] = startDisk
               /\ (~existing /\ plot.len >= 800)
                    => result = "adequate" /\ NoCalls /\ disk[cur] = startDisk

C9_Witness ==
    /\ RunEnded
    /\ result = "existing"
    /\ prevStatus = "updated"

\* C10: with no maintenance pass in between, the enriched plot of a record is
\* written by at most one run, and a run never replaces a stored plot that is
\* present and valid.
C10_EnrichedOnce ==
    RunEnded
        => /\ prevStatus = "updated" => result # "updated"
           /\ (Parseable(startDisk) /\ IsValidPlotContent(WebPlotOf(startDisk)))
                => WebPlotOf(disk[cur]) = WebPlotOf(startDisk)

\* the steps of process_movie_file from one position to the next
RunSteps ==
    {<<"idle", "search">>, <<"search", "scan">>, <<"search", "idle">>,
     <<"scan", "search">>, <<"scan", "normalize">>, <<"scan", "idle">>,
     <<"normalize", "write">>, <<"normalize", "idle">>,
     <<"write", "dump">>, <<"dump", "idle">>}

\* C11: a run moves only forward through searching, extracting, normalizing
\* and writing; the generation service is called only on the candidate the
\* loop accepted; the record file changes only after the generation call has
\* returned; a run that ends skipped or failed has written nothing.
C11_StateOrder ==
    /\ [][mode' = "single" => <<pc, pc'>> \in RunSteps]_pc
    /\ [][nGen' > nGen
            => pc = "normalize" /\ firstHit # NoHit /\ enhanced = firstHit.plot]_vars
    /\ [][(mode = "single" /\ mode' = "single" /\ disk' # disk)
            => pc \in {"write", "dump"} /\ nGen = 1]_vars
    /\ []((RunEnded /\ result = "updated")
            => nGen = 1 /\ firstHit # NoHit)
    /\ []((RunEnded /\ result # "updated") => disk[cur] = startDisk)

C11_Witness ==
    /\ RunEnded
    /\ result = "updated"
    /\ nGen = 1
    /\ Truthy(clean)
    /\ firstHit.q = 3
    /\ prevStatus = "No valid plot found"

(***************************************************************************)
(* _is_valid_plot_content taken on its own                                 *)
(***************************************************************************)
\* the texts the validator is given: every combination of the features it
\* inspects, around each of its thresholds.  One of the first five security
\* phrases is itself an indicator, and the surrounding whitespace is part of
\* the length.
ValidatorTexts ==
    {t \in [body : {"text"},
            len : {50, 299, 300, 399, 400, 450},
            pad : {0, 350, 351},
            ind : 0..(MaxIndicators + 1),
            sec : BOOLEAN,
            sim : BOOLEAN,
            segs : {MinSegments - 1, MinSegments},
            kw : BOOLEAN] :
        /\ t.sec => t.ind >= 1
        /\ t.pad < t.len}
    \cup {EmptyText, NoneText}

\* the URLs a text can come from
ValidatorUrls == {Url(TRUE, {}), Url(TRUE, {"wikipedia.org"})}

InitValidator ==
    /\ disk \in [Files -> {WholeFile(m) : m \in InitRecords}]
    /\ lastStatus = [f \in Files |-> "none"]
    /\ dirExists = TRUE
    /\ InitLocals
    /\ BatchOff
    /\ vUrl \in ValidatorUrls
    /\ vText \in ValidatorTexts
    /\ vpc = "ready"
    /\ vVerdict = FALSE
    /\ fImpl = "plot_finder"
    /\ fUrl = Url(TRUE, {})
    /\ fpc = "off"
    /\ attempts = <<>>
    /\ fPlot = NoneText
    /\ NormOff
    /\ PageOff
    /\ SynOff

\* one call of the validator on the text extracted from vUrl
Validate ==
    /\ vpc = "ready"
    /\ vVerdict' = IsValidPlotContent(vText)
    /\ vpc' = "done"
    /\ UNCHANGED <<disk, today, ops, mode, pc, cur, apiKey, md, q, results, r, cand, gets,
                   enhanced, clean, result, nSearch, nFetch, nGen, queue, cleaned,
                   startDisk, prevStatus, lastStatus, firstHit, lastFail, batchVars,
                   vUrl, vText, fImpl, fUrl, fpc, attempts, fPlot,
                   normVars, pageVars, synVars>>

NextValidator == Validate

SpecValidator == InitValidator /\ [][NextValidator]_vars

\* C12 as stated: every text of >= 400 characters with a movie keyword and no
\* noise indicator is accepted.
C12_LongKeywordTextAccepted ==
    (vpc = "done" /\ vText.len >= 400 /\ vText.kw /\ vText.ind = 0)
        => vVerdict

\* C12 amended: a text of >= 400 characters with a movie keyword and no noise
\* indicator is accepted iff it has at least 100 characters once stripped, at
\* least 3 period-separated segments and none of the template sentences.
C12_LongKeywordTextAcceptedIfWellFormed ==
    (vpc = "done" /\ vText.len >= 400 /\ vText.kw /\ vText.ind = 0)
        => (vVerdict <=> /\ vText.len - vText.pad >= 100
                         /\ vText.segs >= 3
                         /\ ~vText.sim)

C12_Witness ==
    /\ vpc = "done"
    /\ vText.len = 400
    /\ vText.kw
    /\ vText.ind = 0
    /\ vText.pad = 0
    /\ vText.segs = 3
    /\ ~vText.sim
    /\ vVerdict

\* C13: a text of 300 to 399 characters with a movie keyword and no noise
\* indicator is accepted only if its source is a preferred one.
C13_RelaxedFloorNeedsPreferredSource ==
    (vpc = "done" /\ vText.len >= 300 /\ vText.len < 400 /\ vText.kw /\ vText.ind = 0)
        => (vVerdict => IsPreferred(vUrl))

\* C14: every text in which three or more noise indicators occur is rejected,
\* whatever its length and whatever else it contains.
C14_NoiseThresholdRejects ==
    (vpc = "done" /\ vText.ind >= 3) => ~vVerdict

C14_Witness ==
    /\ vpc = "done"
    /\ vText.ind = 3
    /\ ~vText.sec
    /\ vText.len = 450
    /\ vText.pad = 0
    /\ vText.kw
    /\ vText.segs = 3
    /\ ~vText.sim
    /\ ~vVerdict

\* C15: every text containing one of the first five security phrases is
\* rejected, also when it contains no other indicator.
C15_SecurityPhraseRejects ==
    (vpc = "done" /\ vText.sec) => ~vVerdict

C15_Witness ==
    /\ vpc = "done"
    /\ vText.sec
    /\ vText.ind = 1
    /\ vText.len = 450
    /\ vText.pad = 0
    /\ vText.kw
    /\ vText.segs = 3
    /\ ~vText.sim
    /\ ~vVerdict

(***************************************************************************)
(* Properties of the maintenance pass and of the run after it              *)
(***************************************************************************)
\* the statuses of a run that entered the search-and-extract loop
Attempted == {"updated", "No valid plot found", "Plot too short", "No suitable plot found"}

\* the maintenance pass has returned
PassEnded == pc = "idle" /\ mode = "clean"

Orders(S) ==
    {s \in [1..Cardinality(S) -> S] : \A j, k \in 1..Cardinality(S) : s[j] = s[k] => j = k}

\* what a record file of the directory can hold when the batch starts: a
\* record, or the remains of an interrupted rewrite
BatchContents ==
    {WholeFile(Scraped("", Txt("base", 50, 0, TRUE))),
     WholeFile(Scraped("T", Txt("base", 50, 0, TRUE))),
     WholeFile(Scraped("T", Txt("base", 800, 0, TRUE))),
     WholeFile(Put(Put(Scraped("T", Txt("base", 50, 0, TRUE)),
                       "web_plot", Txt("old", 450, 0, TRUE)),
                   "plot_source", "web_scraped")),
     Truncated}

InitBatch ==
    /\ dirExists \in BOOLEAN
    /\ disk \in UNION {[1..n -> BatchContents] :
                          n \in IF dirExists THEN 0..MaxOps ELSE {0}}
    /\ lastStatus = [f \in DOMAIN disk |-> "none"]
    /\ InitLocals
    /\ BatchOff
    /\ PureOff

\* the directory check, the snapshot of the file list, the counters
ProcessAllBegin ==
    /\ bpc = "off"
    /\ pc = "idle"
    /\ IF ~dirExists
       THEN /\ bpc' = "returned"
            /\ success' = FALSE
            /\ UNCHANGED <<movie_files, idx>>
       ELSE \E s \in Orders(DOMAIN disk) :
              /\ movie_files' = s
              /\ IF s = <<>>
                 THEN bpc' = "returned" /\ success' = FALSE /\ idx' = idx
                 ELSE bpc' = "loop" /\ success' = success /\ idx' = 1
    /\ successful_updates' = 0
    /\ skipped_files' = 0
    /\ failed_files' = 0
    /\ UNCHANGED <<disk, today, ops, mode, pc, cur, apiKey, md, q, results, r, cand, gets,
                   enhanced, clean, result, nSearch, nFetch, nGen, queue, cleaned,
                   startDisk, prevStatus, lastStatus, firstHit, lastFail,
                   dirExists, exitCode, visited, added, pureVars>>

\* result = self.process_movie_file(movie_file), on the one PlotFinder object
ProcessAllCall ==
    /\ bpc = "loop"
    /\ idx <= Len(movie_files)
    /\ Begin(movie_files[idx])
    /\ idx > 1 => apiKey' = apiKey
    /\ bpc' = "call"
    /\ visited' = Append(visited, movie_files[idx])
    /\ UNCHANGED <<dirExists, movie_files, idx, successful_updates, skipped_files,
                   failed_files, success, exitCode, added, pureVars>>

\* variant: the loop is left at the first record that fails
ProcessAllTally_AbortsOnFailure ==
    /\ bpc = "call"
    /\ pc = "idle"
    /\ IF result = "updated"
       THEN /\ successful_updates' = successful_updates + 1
            /\ UNCHANGED <<skipped_files, failed_files>>
            /\ bpc' = "loop"
       ELSE IF result \in {"existing", "adequate"}
       THEN /\ skipped_files' = skipped_files + 1
            /\ UNCHANGED <<successful_updates, failed_files>>
            /\ bpc' = "loop"
       ELSE /\ failed_files' = failed_files + 1
            /\ UNCHANGED <<successful_updates, skipped_files>>
            /\ bpc' = "returned"
    /\ idx' = idx + 1
    /\ UNCHANGED <<disk, today, ops, mode, pc, cur, apiKey, md, q, results, r, cand, gets,
                   enhanced, clean, result, nSearch, nFetch, nGen, queue, cleaned,
                   startDisk, prevStatus, lastStatus, firstHit, lastFail,
                   dirExists, movie_files, success, exitCode, visited, added, pureVars>>

\* the tally of one result, and on to the next file
ProcessAllTally ==
    /\ bpc = "call"
    /\ pc = "idle"
    /\ IF result = "updated"
       THEN /\ successful_updates' = successful_updates + 1
            /\ UNCHANGED <<skipped_files, failed_files>>
       ELSE IF result \in {"existing", "adequate"}
       THEN /\ skipped_files' = skipped_files + 1
            /\ UNCHANGED <<successful_updates, failed_files>>
       ELSE /\ failed_files' = failed_files + 1
            /\ UNCHANGED <<successful_updates, skipped_files>>
    /\ bpc' = "loop"
    /\ idx' = idx + 1
    /\ UNCHANGED <<disk, today, ops, mode, pc, cur, apiKey, md, q, results, r, cand, gets,
                   enhanced, clean, result, nSearch, nFetch, nGen, queue, cleaned,
                   startDisk, prevStatus, lastStatus, firstHit, lastFail,
                   dirExists, movie_files, success, exitCode, visited, added, pureVars>>

\* variant: a skipped record counts as a success of the batch
ProcessAllEnd_CountsSkipped ==
    /\ bpc = "loop"
    /\ idx > Len(movie_files)
    /\ success' = (successful_updates + skipped_files > 0)
    /\ bpc' = "returned"
    /\ UNCHANGED <<disk, today, ops, mode, pc, cur, apiKey, md, q, results, r, cand, gets,
                   enhanced, clean, result, nSearch, nFetch, nGen, queue, cleaned,
                   startDisk, prevStatus, lastStatus, firstHit, lastFail,
                   dirExists, movie_files, idx, successful_updates, skipped_files,
                   failed_files, exitCode, visited, added, pureVars>>

\* variant: the directory is listed again when the list is exhausted
ProcessAllEnd_Rescans ==
    /\ bpc = "loop"
    /\ idx > Len(movie_files)
    /\ LET new == {f \in DOMAIN disk : \A k \in 1..Len(movie_files) : movie_files[k] # f}
       IN  IF new # {}
           THEN /\ \E s \in Orders(new) : movie_files' = movie_files \o s
                /\ UNCHANGED <<success, bpc>>
           ELSE /\ success' = (successful_updates > 0)
                /\ bpc' = "returned"
                /\ UNCHANGED movie_files
    /\ UNCHANGED <<disk, today, ops, mode, pc, cur, apiKey, md, q, results, r, cand, gets,
                   enhanced, clean, result, nSearch, nFetch, nGen, queue, cleaned,
                   startDisk, prevStatus, lastStatus, firstHit, lastFail,
                   dirExists, idx, successful_updates, skipped_files,
                   failed_files, exitCode, visited, added, pureVars>>

\* return successful_updates > 0
ProcessAllEnd ==
    /\ bpc = "loop"
    /\ idx > Len(movie_files)
    /\ success' = (successful_updates > 0)
    /\ bpc' = "returned"
    /\ UNCHANGED <<disk, today, ops, mode, pc, cur, apiKey, md, q, results, r, cand, gets,
                   enhanced, clean, result, nSearch, nFetch, nGen, queue, cleaned,
                   startDisk, prevStatus, lastStatus, firstHit, lastFail,
                   dirExists, movie_files, idx, successful_updates, skipped_files,
                   failed_files, exitCode, visited, added, pureVars>>

\* sys.exit(0 if success else 1)
MainExit ==
    /\ bpc = "returned"
    /\ exitCode' = IF success THEN 0 ELSE 1
    /\ bpc' = "exited"
    /\ UNCHANGED <<disk, today, ops, mode, pc, cur, apiKey, md, q, results, r, cand, gets,
                   enhanced, clean, result, nSearch, nFetch, nGen, queue, cleaned,
                   startDisk, prevStatus, lastStatus, firstHit, lastFail,
                   dirExists, movie_files, idx, successful_updates, skipped_files,
                   failed_files, success, visited, added, pureVars>>

NextBatch ==
    \/ ProcessAllBegin
    \/ ProcessAllCall
    \/ Search
    \/ ScanUrl
    \/ CleanAndStore
    \/ OpenWrite
    \/ DumpMember
    \/ CloseFile
    \/ ProcessAllTally
    \/ ProcessAllEnd
    \/ MainExit

SpecBatch == InitBatch /\ [][NextBatch]_vars

\* the files whose last run ended with one of the statuses S
Ended(S) == {f \in DOMAIN lastStatus : lastStatus[f] \in S}

\* C17: the batch calls process_movie_file on the files of its snapshot in
\* order, each once; whatever a call returns, the loop goes on to the next
\* file; the three counters add up to the number of files handled, and at the
\* end each file is counted under the status its run ended with.
C17_BatchTally ==
    /\ (bpc # "off" /\ dirExists) => movie_files \in Orders(DOMAIN disk)
    /\ bpc # "off" => visited = SubSeq(movie_files, 1, Len(visited))
    /\ bpc = "call" => Len(visited) = idx
    /\ bpc = "loop"
         => /\ Len(visited) = idx - 1
            /\ successful_updates + skipped_files + failed_files = idx - 1
    /\ bpc \in {"returned", "exited"}
         => /\ visited = movie_files
            /\ successful_updates + skipped_files + failed_files = Len(movie_files)
            /\ successful_updates = Cardinality(Ended({"updated"}))
            /\ skipped_files = Cardinality(Ended({"existing", "adequate"}))
            /\ failed_files = Cardinality(Ended({"exception", "No movie title found",
                                                 "No valid plot found", "Plot too short",
                                                 "No suitable plot found"}))

C17_Witness ==
    /\ bpc = "exited"
    /\ Len(movie_files) = 2
    /\ lastStatus[movie_files[1]] = "exception"
    /\ lastStatus[movie_files[2]] = "updated"
    /\ failed_files = 1
    /\ successful_updates = 1

\* C18: a 'process all' run exits with a nonzero status iff no record ended
\* 'updated' in it, which includes a missing directory and an empty one.
C18_ExitStatus ==
    bpc = "exited" => (exitCode # 0 <=> Ended({"updated"}) = {})

C18_Witness ==
    /\ bpc = "exited"
    /\ exitCode = 1
    /\ Len(movie_files) = 2
    /\ skipped_files = 2

(***************************************************************************)
(* A page fetch taken on its own: PlotFinder._extract_plot_from_url and    *)
(* extract_plot_from_url of web_plot_scraper.py, request by request        *)
(***************************************************************************)
FetchImpls == {"plot_finder", "web_plot_scraper"}

\* one GET request: the verify argument it was sent with and how it ended
Attempt(verify, outcome) == [verify |-> verify, outcome |-> outcome]

InitFetch ==
    /\ disk \in [Files -> {WholeFile(m) : m \in InitRecords}]
    /\ lastStatus = [f \in Files |-> "none"]
    /\ dirExists = TRUE
    /\ InitLocals
    /\ BatchOff
    /\ vUrl = Url(TRUE, {})
    /\ vText = EmptyText
    /\ vpc = "off"
    /\ vVerdict = FALSE
    /\ fImpl \in FetchImpls
    /\ fUrl \in Urls
    /\ fpc = "start"
    /\ attempts = <<>>
    /\ fPlot = NoneText
    /\ NormOff
    /\ PageOff
    /\ SynOff

\* the state a fetch step leaves alone
fetchFrame == <<disk, today, ops, mode, pc, cur, apiKey, md, q, results, r, cand, gets,
                enhanced, clean, result, nSearch, nFetch, nGen, queue, cleaned,
                startDisk, prevStatus, lastStatus, firstHit, lastFail, batchVars,
                vUrl, vText, vpc, vVerdict, fImpl, fUrl, normVars, pageVars, synVars>>

\* PlotFinder: the URL check; no request is sent for a rejected URL
FetchBegin ==
    /\ fpc = "start"
    /\ fImpl = "plot_finder"
    /\ fpc' = IF IsValidUrl(fUrl) THEN "get" ELSE "done"
    /\ UNCHANGED <<attempts, fPlot, fetchFrame>>

\* PlotFinder: response = session.get(url, timeout=timeout, verify=True)
FirstGet ==
    /\ fpc = "get"
    /\ \E a \in GetOutcomes :
         /\ attempts' = <<Attempt(TRUE, a)>>
         /\ fpc' = IF a = "ok" THEN "respond"
                   ELSE IF a \in Retried THEN "retry"
                   ELSE "done"
    /\ UNCHANGED <<fPlot, fetchFrame>>

\* PlotFinder: response = session.get(url, timeout=timeout, verify=False); a
\* timeout returns None, any other exception reaches the outer handler
RetryGet ==
    /\ fpc = "retry"
    /\ \E a \in GetOutcomes :
         /\ attempts' = Append(attempts, Attempt(FALSE, a))
         /\ fpc' = IF a = "ok" THEN "respond" ELSE "done"
    /\ UNCHANGED <<fPlot, fetchFrame>>

\* PlotFinder: raise_for_status, the content-type check, the extraction and
\* the validation of what was extracted
Respond ==
    /\ fpc = "respond"
    /\ \E kind \in PageKinds, t \in PageTexts :
         fPlot' = IF kind = "html" /\ IsValidPlotContent(t) THEN t ELSE NoneText
    /\ fpc' = "done"
    /\ UNCHANGED <<attempts, fetchFrame>>

\* web_plot_scraper: requests.get(url, headers=headers, timeout=10, verify=False)
LegacyGet ==
    /\ fpc = "start"
    /\ fImpl = "web_plot_scraper"
    /\ \E a \in GetOutcomes :
         /\ attempts' = <<Attempt(FALSE, a)>>
         /\ fpc' = IF a = "ok" THEN "legacy_respond" ELSE "done"
    /\ UNCHANGED <<fPlot, fetchFrame>>

\* web_plot_scraper: the extraction and the length test, nothing else
LegacyRespond ==
    /\ fpc = "legacy_respond"
    /\ \E t \in PageTexts :
         fPlot' = IF t.len >= LegacyMinLen THEN t ELSE NoneText
    /\ fpc' = "done"
    /\ UNCHANGED <<attempts, fetchFrame>>

NextFetch ==
    \/ FetchBegin
    \/ FirstGet
    \/ RetryGet
    \/ Respond
    \/ LegacyGet
    \/ LegacyRespond

SpecFetch == InitFetch /\ [][NextFetch]_vars

\* C19: the first request of every page fetch verifies certificates; a
\* second request is sent only after a TLS or connection failure of the
\* first, never after its timeout, and is the only one sent without
\* verification; there is no third request.
C19_FetchRetryPolicy ==
    /\ Len(attempts) >= 1 => attempts[1].verify
    /\ Len(attempts) <= 2
    /\ Len(attempts) = 2
         => /\ ~attempts[2].verify
            /\ attempts[1].outcome \in {"ssl_error", "connection_error"}

(***************************************************************************)
(* Failures of the external calls                                          *)
(***************************************************************************)
\* C20: a failed search request, page fetch or generation call yields None
\* where it was made; after a failed search the loop is at the next query,
\* after a failed fetch at the next result or query, after a failed
\* generation call the raw candidate is stored; a run that saw such a failure
\* still returns a result of its own and never the error of an exception.
C20_FailuresAreAbsorbed ==
    /\ [](lastFail = "search"
            => \/ pc = "search"
               \/ RunEnded /\ result = "No valid plot found")
    /\ [](lastFail = "fetch"
            => /\ cand = NoneText
               /\ \/ pc \in {"scan", "search"}
                  \/ RunEnded /\ result = "No valid plot found")
    /\ [](lastFail = "generation"
            => /\ clean = NoneText
               /\ \/ pc \in {"write", "dump"} /\ md["web_plot"] = enhanced
                  \/ RunEnded /\ result = "updated" /\ WebPlotOf(disk[cur]) = enhanced)
    /\ [](lastFail # "none" => result # "exception")
    /\ [][(pc = "search" /\ lastFail' = "search")
            => IF q < NumQueries
               THEN pc' = "search" /\ q' = q + 1
               ELSE result' = "No valid plot found"]_<<pc, q, r>>
    /\ [][(pc = "scan" /\ lastFail' = "fetch")
            => IF r < Len(results) THEN pc' = "scan" /\ q' = q /\ r' = r + 1
               ELSE IF q < NumQueries THEN pc' = "search" /\ q' = q + 1
               ELSE result' = "No valid plot found"]_<<pc, q, r>>

C20_Witness ==
    /\ RunEnded
    /\ result = "updated"
    /\ lastFail = "generation"
    /\ firstHit.q = 2
    /\ firstHit.r = 2
    /\ gets = 2

(***************************************************************************)
(* C21: no page request goes to a URL that is not http(s) or that names a  *)
(* site of the skip list or of the list of problematic domains             *)
(***************************************************************************)
\* the URL is one the program must not request
Denied(url) ==
    \/ ~url.http
    \/ url.sites \cap {"imdb.com", "netflix.com", "amazon.com", "hulu.com", "disney.com",
                       "facebook.com", "instagram.com", "twitter.com", "youtube.com",
                       "linkedin.com", "pinterest.com", "tiktok.com", "snapchat.com",
                       "revionz.safariinfosoft.com"} # {}

\* C21: the step that handles a search result whose URL is not http(s) or
\* names a listed site issues no GET request: the request count of the URL
\* is 0 and the run's count of fetched pages does not grow
C21_NoRequestToDeniedUrl ==
    [][(pc = "scan" /\ Denied(results[r])) => (gets' = 0 /\ nFetch' = nFetch)]_<<pc, q, r>>

\* a result that only _is_valid_url stops (not http, or a problematic domain
\* that is not on the skip list) was handled without a request
C21_Witness ==
    /\ pc = "scan" /\ r > 1
    /\ Denied(results[r - 1]) /\ ~OnSkipList(results[r - 1])
    /\ gets = 0

(***************************************************************************)
(* C22: a record with no title                                             *)
(***************************************************************************)
\* the file holds a record that loads and has no title
Untitled(f) == Parseable(disk[f]) /\ Get(Loads(disk[f]), "title", "") = ""

\* the call of process_movie_file on an untitled record returns at once,
\* without a search, fetch or generation call and without a write
UntitledReturnsAtOnce ==
    [][(bpc = "loop" /\ idx <= Len(movie_files) /\ Untitled(movie_files[idx]))
         => /\ pc' = "idle"
            /\ result' = "No movie title found"
            /\ nSearch' = 0 /\ nFetch' = 0 /\ nGen' = 0
            /\ disk' = disk]_<<bpc, idx>>

\* C22 as stated: the untitled record is skipped, that is counted with the
\* skipped records, and the loop goes on to the next file
C22_UntitledIsSkipped ==
    /\ UntitledReturnsAtOnce
    /\ [][(bpc = "call" /\ pc = "idle" /\ Untitled(cur))
            => /\ skipped_files' = skipped_files + 1
               /\ failed_files' = failed_files
               /\ bpc' = "loop" /\ idx' = idx + 1]_<<bpc, idx>>

\* C22 amended: the untitled record is reported as a failure (the error
\* "No movie title found", counted with the failed records) without a
\* search, fetch or generation call and without a write, and the loop goes
\* on to the next file
C22_UntitledIsFailed ==
    /\ UntitledReturnsAtOnce
    /\ [][(bpc = "call" /\ pc = "idle" /\ Untitled(cur))
            => /\ failed_files' = failed_files + 1
               /\ skipped_files' = skipped_files
               /\ successful_updates' = successful_updates
               /\ bpc' = "loop" /\ idx' = idx + 1]_<<bpc, idx>>

\* an untitled record was the first of the batch and the second is under way
C22_Witness ==
    /\ Len(visited) = 2
    /\ Untitled(visited[1])
    /\ failed_files >= 1

HasRaw(file) == Parseable(file) /\ "raw_web_plot" \in DOMAIN Loads(file)

\* C28: a stored record has a raw_web_plot only while its plot_source is
\* 'web_scraped_bedrock_cleaned', and at the end of a run that updated the
\* record the raw_web_plot is the candidate handed to the normalizer and the
\* web_plot is the text the normalizer returned for it
C28_RawPlotIsConsistent ==
    /\ \A f \in DOMAIN disk :
          HasRaw(disk[f]) => SourceOf(disk[f]) = "web_scraped_bedrock_cleaned"
    /\ (RunEnded /\ result = "updated" /\ HasRaw(disk[cur]))
          => /\ Loads(disk[cur])["raw_web_plot"] = enhanced
             /\ WebPlotOf(disk[cur]) = clean

(***************************************************************************)
(* C30: what clean_invalid_plots leaves alone                              *)
(***************************************************************************)
\* the keys clean_invalid_plots may assign
CleanedKeys == {"web_plot", "plot_source", "last_updated"}

\* the stored enriched plot is absent, empty or passes the validator
LeftAlone(file) ==
    Parseable(file) /\ (~Truthy(WebPlotOf(file)) \/ IsValidPlotContent(WebPlotOf(file)))

\* C30: during a clean_invalid_plots pass no step changes the file of a
\* record whose web_plot is absent, empty or valid (so its last_updated
\* stays too); and when the rewrite of a cleaned record is complete, the
\* record has the keys it had, each with the value it had, except web_plot,
\* plot_source and last_updated
C30_MaintenanceFrame ==
    /\ [][(mode = "clean" /\ pc # "idle") =>
            \A f \in DOMAIN disk :
               (disk'[f] # disk[f]) =>
                   /\ f = cur'
                   /\ ~LeftAlone(IF pc = "clean" THEN disk[f] ELSE startDisk)]_vars
    /\ [][(mode = "clean" /\ pc = "dump" /\ pc' = "clean") =>
            LET old == Loads(startDisk)
                new == Loads(disk'[cur])
            IN  /\ DOMAIN new \ CleanedKeys = DOMAIN old \ CleanedKeys
                /\ \A k \in DOMAIN old \ CleanedKeys : new[k] = old[k]]_vars

\* a first pass cleaned the record and a second pass, finding its web_plot
\* empty, left it as it was
C30_Witness ==
    /\ mode = "clean" /\ pc = "idle" /\ result = "nothing cleaned"
    /\ lastStatus[cur] = "cleaned"
    /\ disk[cur] = startDisk
    /\ WebPlotOf(disk[cur]) = EmptyText
    /\ "title" \in DOMAIN Loads(disk[cur])

(***************************************************************************)
(* The variables of a run and of the calls looked at on their own          *)
(***************************************************************************)
runVars == <<disk, today, ops, mode, pc, cur, apiKey, md, q, results, r, cand, gets,
             enhanced, clean, result, nSearch, nFetch, nGen, queue, cleaned,
             startDisk, prevStatus, lastStatus, firstHit, lastFail>>

validVars == <<vUrl, vText, vpc, vVerdict>>

fetchVars == <<fImpl, fUrl, fpc, attempts, fPlot>>

\* the directory and the idle program every call on its own starts from
InitIdle ==
    /\ disk \in [Files -> {WholeFile(m) : m \in InitRecords}]
    /\ lastStatus = [f \in Files |-> "none"]
    /\ dirExists = TRUE
    /\ InitLocals
    /\ BatchOff

(***************************************************************************)
(* _extract_plot_with_bedrock on its own                                   *)
(***************************************************************************)
\* the responses of the generation service: `split` says that the letters of
\* the sentinel occur with control characters between them (counted in junk)
NormalizerResponses ==
    {[ok |-> FALSE, text |-> EmptyText, sentinel |-> FALSE, split |-> FALSE, junk |-> 0]}
    \cup
    {resp \in [ok : {TRUE},
               text : {Txt("gen", n, 0, TRUE) : n \in {250, 299, 300, 301, 360, 450}},
               sentinel : BOOLEAN,
               split : BOOLEAN,
               junk : {0, 1, 60, 61}] :
        resp.split => resp.junk >= 1}

InitNormalizer ==
    /\ InitIdle
    /\ ValidOff
    /\ FetchOff
    /\ PageOff
    /\ SynOff
    /\ gResp \in NormalizerResponses
    /\ gpc = "ready"
    /\ gOut = NoneText
    /\ gOutSentinel = FALSE

\* the handling of one response, from the parse to the return
Normalize ==
    /\ gpc = "ready"
    /\ gOut' = ExtractPlotWithBedrock(gResp)
    /\ gOutSentinel' = ResultHasSentinel(gResp)
    /\ gpc' = "done"
    /\ UNCHANGED <<runVars, batchVars, validVars, fetchVars, pageVars, synVars, gResp>>

NextNormalizer == Normalize

SpecNormalizer == InitNormalizer /\ [][NextNormalizer]_vars

\* C23: a response that contains the sentinel yields None; a response whose
\* cleaned text is shorter than 300 characters yields None; a result that is
\* not None has at least 300 characters and does not contain the sentinel
C23_NormalizerGates ==
    gpc = "done" =>
        /\ (gResp.ok /\ gResp.sentinel) => gOut = NoneText
        /\ (gResp.ok /\ gResp.text.len - gResp.junk < 300) => gOut = NoneText
        /\ gOut # NoneText => (gOut.len >= 300 /\ ~gOutSentinel)

(***************************************************************************)
(* The structured-article extraction on its own: the branch taken for a    *)
(* URL of wikipedia.org, the same in both implementations                  *)
(***************************************************************************)
\* the elements of a page: a heading with or without one of the words
\* 'plot', 'synopsis', 'story' in its text, or a paragraph
PageElements ==
    {[tag |-> t, word |-> w] : t \in {"h2", "h3"}, w \in BOOLEAN}
    \cup {[tag |-> "p", word |-> FALSE]}

Pages == UNION {[1..n -> PageElements] : n \in 0..MaxPage}

\* for heading in soup.find_all(['h2', 'h3']): if any(word in ...): ... break
\* the position of the first heading that has one of the words, 0 if none
FirstMatch(pg) ==
    LET hits == {i \in 1..Len(pg) : pg[i].tag \in {"h2", "h3"} /\ pg[i].word}
    IN  IF hits = {} THEN 0 ELSE CHOOSE i \in hits : \A j \in hits : i <= j

\* while current and current.name not in ['h2', 'h3']: where the walk over
\* the siblings that follow position i ends
SectionEnd(pg, i) ==
    LET stops == {j \in (i + 1)..Len(pg) : pg[j].tag \in {"h2", "h3"}}
    IN  IF stops = {} THEN Len(pg) + 1 ELSE CHOOSE j \in stops : \A k \in stops : j <= k

\* the positions of the paragraphs whose text goes into plot_text
PlotParagraphs(pg) ==
    IF FirstMatch(pg) = 0 THEN {}
    ELSE {k \in (FirstMatch(pg) + 1)..(SectionEnd(pg, FirstMatch(pg)) - 1) : pg[k].tag = "p"}

InitPage ==
    /\ InitIdle
    /\ ValidOff
    /\ FetchOff
    /\ NormOff
    /\ SynOff
    /\ page \in Pages
    /\ ppc = "ready"
    /\ collected = {}

\* the loop over the headings and the walk over the siblings of the match
ExtractSection ==
    /\ ppc = "ready"
    /\ collected' = PlotParagraphs(page)
    /\ ppc' = "done"
    /\ UNCHANGED <<runVars, batchVars, validVars, fetchVars, normVars, synVars, page>>

NextPage == ExtractSection

SpecPage == InitPage /\ [][NextPage]_vars

\* the level of a heading: h2 is the higher one
HeadingLevel(e) == IF e.tag = "h2" THEN 2 ELSE 3

\* C24: the extraction takes the first heading that has one of the words and
\* collects every paragraph that follows it up to the next heading of equal
\* or higher level; a heading of lower level (an h3 under a matched h2)
\* does not end the collection
C24_SectionExtraction ==
    ppc = "done" =>
        LET hits == {i \in 1..Len(page) : page[i].tag # "p" /\ page[i].word}
        IN  IF hits = {} THEN collected = {}
            ELSE LET h == CHOOSE i \in hits : \A j \in hits : i <= j
                     ends == {j \in (h + 1)..Len(page) :
                                 /\ page[j].tag # "p"
                                 /\ HeadingLevel(page[j]) <= HeadingLevel(page[h])}
                 IN  collected = {k \in (h + 1)..Len(page) :
                                     /\ page[k].tag = "p"
                                     /\ \A j \in ends : k < j}

(***************************************************************************)
(* The batch while other programs put record files into the directory      *)
(***************************************************************************)
\* what a record file that appears during the batch holds
AddedContents == {WholeFile(Scraped("T", Txt("base", 50, 0, TRUE)))}

\* another program creates a record file while the loop of
\* process_all_movies runs
AddFile ==
    /\ bpc \in {"loop", "call"}
    /\ Cardinality(added) < MaxAdded
    /\ \E c \in AddedContents : disk' = Append(disk, c)
    /\ lastStatus' = Append(lastStatus, "none")
    /\ added' = added \cup {Len(disk) + 1}
    /\ UNCHANGED <<today, ops, mode, pc, cur, apiKey, md, q, results, r, cand, gets,
                   enhanced, clean, result, nSearch, nFetch, nGen, queue, cleaned,
                   startDisk, prevStatus, firstHit, lastFail,
                   dirExists, bpc, movie_files, idx, successful_updates, skipped_files,
                   failed_files, success, exitCode, visited, pureVars>>

NextBatchEnv ==
    \/ NextBatch
    \/ AddFile

SpecBatchEnv == InitBatch /\ [][NextBatchEnv]_vars

\* the files process_movie_file has been called on
Processed == {visited[k] : k \in 1..Len(visited)}

\* C25: the files a batch processes are the files that were in the directory
\* when it started: a file that appeared while it ran is never processed,
\* and when the batch has returned every file of the start has been
C25_BatchSnapshot ==
    /\ Processed \cap added = {}
    /\ Processed \subseteq DOMAIN disk \ added
    /\ bpc \in {"returned", "exited"} => Processed = DOMAIN disk \ added

\* the batch has ended, it processed the one file of the start, and the file
\* that appeared while it ran is still as it was put there
C25_Witness ==
    /\ bpc = "exited"
    /\ added # {}
    /\ Processed = {1}
    /\ \A f \in added : lastStatus[f] = "none" /\ disk[f] \in AddedContents

(***************************************************************************)
(* The batch as a program that keeps running: every step of it that can be *)
(* taken is taken, each external call returning                            *)
(***************************************************************************)
SpecBatchFair == InitBatch /\ [][NextBatch]_vars /\ WF_vars(NextBatch)

\* C27: a run of process_movie_file issues at most 3 search requests, looks
\* at no more than 10 results of a response, sends at most 2 GET requests to
\* a URL and makes at most 1 generation call; the batch comes to its exit,
\* which it does only when every call of process_movie_file has returned
C27_BoundedCallsAndTermination ==
    /\ [](/\ nSearch <= 3
          /\ Len(results) <= 10
          /\ pc = "scan" => r <= 10
          /\ gets <= 2
          /\ nGen <= 1)
    /\ <>(bpc = "exited")

\* the batch has ended; its last run sent three search requests, the third
\* answered with more than ten results, took the tenth of them after two GET
\* requests and made its generation call
C27_Witness ==
    /\ bpc = "exited"
    /\ nSearch = 3
    /\ firstHit # NoHit /\ firstHit.q = 3 /\ firstHit.r = 10
    /\ gets = 2
    /\ nGen = 1

(***************************************************************************)
(* generate_synopsis_with_bedrock of rewrite_synopsis_with_seo.py           *)
(***************************************************************************)
\* how many distinct keywords the SEO data of a movie yields: none when
\* get_seo_data finds no readable file and returns {}, and the 4 or 8 genre
\* keywords plus the 10 title keywords of google_trends otherwise
SeoKeywordCounts == {0, 14, 18}

\* extract_top_keywords: return unique_keywords[:max_keywords]
TopKeywords(n, max_keywords) == Min(n, max_keywords)

\* fallback_synopsis_generation: the template takes seo_keywords[0] and
\* seo_keywords[1] of the keywords found, or of the defaults when none is
FallbackSynopsis(n) ==
    LET found == TopKeywords(n, FallbackMax)
        seo_keywords == IF found = 0 THEN NumDefaults ELSE found
    IN  IF seo_keywords >= 2 THEN "fallback" ELSE "raised"

\* what an attempt comes to: a parsed response, a ClientError, or any other
\* exception of the call or of the parse
InvokeOutcomes == {"ok", "client_error", "other_error"}

\* variant: the same delay after every failed attempt
Backoff_Constant(a) == RETRY_DELAY

\* time.sleep(RETRY_DELAY * (2 ** attempt))
Backoff(a) == RETRY_DELAY * 2^a

InitSynopsis ==
    /\ InitIdle
    /\ ValidOff
    /\ FetchOff
    /\ NormOff
    /\ PageOff
    /\ sKeywords \in SeoKeywordCounts
    /\ spc = "try"
    /\ attempt = 0
    /\ invocations = 0
    /\ sleeps = <<>>
    /\ synopsis = "none"

\* one pass of the loop body: the call and the parse, or one of the handlers
Invoke ==
    /\ spc = "try"
    /\ attempt < MAX_RETRIES
    /\ invocations' = invocations + 1
    /\ \E o \in InvokeOutcomes :
         IF o = "ok"
         THEN /\ synopsis' = "generated"
              /\ spc' = "done"
         ELSE IF attempt < MAX_RETRIES - 1
         THEN /\ spc' = "sleep"
              /\ UNCHANGED synopsis
         ELSE /\ synopsis' = FallbackSynopsis(sKeywords)
              /\ spc' = "done"
    /\ UNCHANGED <<runVars, batchVars, validVars, fetchVars, normVars, pageVars,
                   sKeywords, attempt, sleeps>>

\* the sleep of a handler, and on to the next value of the loop variable
Sleep ==
    /\ spc = "sleep"
    /\ sleeps' = Append(sleeps, Backoff(attempt))
    /\ attempt' = attempt + 1
    /\ spc' = "try"
    /\ UNCHANGED <<runVars, batchVars, validVars, fetchVars, normVars, pageVars,
                   sKeywords, invocations, synopsis>>

NextSynopsis ==
    \/ Invoke
    \/ Sleep

SpecSynopsis == InitSynopsis /\ [][NextSynopsis]_vars

\* C29: the generation service is invoked at most 3 times; the call returns
\* the generated text at the first attempt that succeeds and invokes nothing
\* after it; it sleeps 2 seconds after a failed first attempt and 4 after a
\* failed second one, and not after the third; after the third failure it
\* returns the fallback synopsis and raises nothing
C29_RetryWithBackoff ==
    /\ [](/\ invocations <= 3
          /\ synopsis # "raised"
          /\ (spc = "try" /\ invocations = 1) => sleeps = <<2>>
          /\ (spc = "try" /\ invocations = 2) => sleeps = <<2, 4>>
          /\ (spc = "done" /\ synopsis = "generated")
                => sleeps = SubSeq(<<2, 4>>, 1, invocations - 1)
          /\ (spc = "done" /\ synopsis # "generated")
                => /\ synopsis = "fallback"
                   /\ invocations = 3
                   /\ sleeps = <<2, 4>>)
    /\ [][spc = "done" => UNCHANGED <<invocations, sleeps, synopsis>>]_vars

\* three attempts failed, with the two sleeps between them, and the fallback
\* synopsis was returned
C29_Witness ==
    /\ spc = "done"
    /\ synopsis = "fallback"
    /\ invocations = 3
    /\ sleeps = <<2, 4>>

====
